---- MODULE Spec2Model ----
(***************************************************************************)
(* BetterWalk (betterwalk.py): the entry enumerator iterdir_stat in its    *)
(* three platform implementations, its name-only projection iterdir, the   *)
(* tree walker walk built on it, and the posix conversion type_to_stat.    *)
(*                                                                         *)
(* The first three are Python generators: calling one creates a suspended  *)
(* generator and runs none of its body; every pull resumes the body up to  *)
(* the next yield, return or raise; close() raises GeneratorExit at the    *)
(* yield the generator is suspended at, which runs the enclosing finally   *)
(* blocks.                                                                 *)
(***************************************************************************)
EXTENDS Integers, Sequences, FiniteSets, TLC

VARIABLES
    fs,          \* the directory tree on disk (never modified by a walk)
    platform,    \* which implementation sys.platform selected at import
    api,         \* the entry point the consumer uses: "walk", "iterdir_stat",
                 \* "iterdir" or "type_to_stat"
    top,         \* the directory passed by the consumer
    arg,         \* the dirent.d_type passed to type_to_stat (None for the others)
    topdown,     \* walk's argument
    followlinks, \* walk's argument
    onerror,     \* walk's argument: "none", "given" (returns), "raises"
    ctl,         \* the consumer's view of the outermost generator
    exc,         \* the exception that left the outermost generator, or "none"
    stack,       \* the active walk() frames, outermost first
    gen,         \* the iterdir_stat generator currently alive
    nopen,       \* native listing handles opened and not yet closed
    out,         \* what the consumer has received: walk's records, iterdir_stat's
                 \* (name, st) pairs, iterdir's names or type_to_stat's result
    errors,      \* calls of onerror: the path each was called for
    statcalls    \* os.stat calls made by walk itself (line 266): the paths

inputs == <<fs, platform, api, top, arg, topdown, followlinks, onerror>>
vars == <<fs, platform, api, top, arg, topdown, followlinks, onerror,
          ctl, exc, stack, gen, nopen, out, errors, statcalls>>

(***************************************************************************)
(* Bounds of the model.                                                    *)
(***************************************************************************)
\* number of directories in the tree (directory 1 is the root)
MaxDirs == 3

(***************************************************************************)
(* Bit operations on naturals (Python's & and |).                          *)
(***************************************************************************)
RECURSIVE BitAnd(_, _)
BitAnd(a, b) ==
    IF a = 0 \/ b = 0 THEN 0
    ELSE (IF a % 2 = 1 /\ b % 2 = 1 THEN 1 ELSE 0) + 2 * BitAnd(a \div 2, b \div 2)

RECURSIVE BitOr(_, _)
BitOr(a, b) ==
    IF a = 0 THEN b
    ELSE IF b = 0 THEN a
    ELSE (IF a % 2 = 1 \/ b % 2 = 1 THEN 1 ELSE 0) + 2 * BitOr(a \div 2, b \div 2)

(***************************************************************************)
(* Constants of windows.h, dirent.h and Python's stat module.              *)
(***************************************************************************)
FILE_ATTRIBUTE_READONLY == 1
FILE_ATTRIBUTE_DIRECTORY == 16
FILE_ATTRIBUTE_REPARSE_POINT == 1024
DT_DIR == 4
\* dirent.h values the source does not name: the other kinds a d_type can hold;
\* DT_UNKNOWN is the one of an entry whose type the listing did not resolve
DT_UNKNOWN == 0
DT_REG == 8
DT_LNK == 10
\* stat.S_IFDIR = 0o040000, stat.S_IFREG = 0o100000, stat.S_IFLNK = 0o120000
S_IFDIR == 16384
S_IFREG == 32768
S_IFLNK == 40960
\* the mask of stat.S_IFMT(mode) = mode & 0o170000
S_IFMT_MASK == 61440
\* Python's None, for a stat field that is not available
None == -1

S_IFMT(mode) == BitAnd(mode, S_IFMT_MASK)
S_ISDIR(mode) == S_IFMT(mode) = S_IFDIR
S_ISLNK(mode) == S_IFMT(mode) = S_IFLNK

(***************************************************************************)
(* The conversion functions of the two native implementations.             *)
(***************************************************************************)
\* win32: dwFileAttributes -> st_mode (0o111 = 73, 0o444 = 292, 0o666 = 438)
attributes_to_mode(attributes) ==
    LET m1 == IF BitAnd(attributes, FILE_ATTRIBUTE_DIRECTORY) # 0
              THEN BitOr(0, BitOr(S_IFDIR, 73))
              ELSE BitOr(0, S_IFREG)
        m2 == IF BitAnd(attributes, FILE_ATTRIBUTE_READONLY) # 0
              THEN BitOr(m1, 292)
              ELSE BitOr(m1, 438)
        m3 == IF BitAnd(attributes, FILE_ATTRIBUTE_REPARSE_POINT) # 0
              THEN BitOr(m2, S_IFLNK)
              ELSE m2
    IN  m3

\* win32: WIN32_FIND_DATA -> stat_result (only st_mode is read by walk)
find_data_to_stat(data) ==
    [st_mode |-> attributes_to_mode(data.dwFileAttributes)]

\* posix: d_type -> stat_result; st_mode is never None
type_to_stat(d_type) ==
    [st_mode |-> IF d_type = DT_DIR THEN BitOr(S_IFDIR, 73) ELSE S_IFREG]

(***************************************************************************)
(* The directory tree.  Directory 1 is the root; directory d > 1 is a real *)
(* subdirectory "d<d>" of fs.parent[d] < d.  When fs.files, every          *)
(* directory holds a regular file "f".  Directory fs.link.at (if not 0)    *)
(* holds a symbolic link "l": to directory fs.link.to > fs.link.at (so     *)
(* there is no cycle), or dangling when fs.link.to = 0.  Directory         *)
(* fs.fail.at (if not 0) makes the native listing calls fail the way       *)
(* fs.fail.kind says.                                                      *)
(***************************************************************************)
Dirs == 1..MaxDirs
FailKinds == {"nofiles", "open", "advance", "close"}

DirName(d) == "d" \o ToString(d)

Min(a, b) == IF a < b THEN a ELSE b

\* the entries of directory d in the order the platform enumerates them
Entries(d) ==
    LET file == IF fs.files THEN <<[name |-> "f", kind |-> "file", ref |-> 0]>> ELSE <<>>
        subs == SelectSeq([c \in 1..MaxDirs |-> c], LAMBDA c : c > 1 /\ fs.parent[c] = d)
        dirs == [i \in 1..Len(subs) |-> [name |-> DirName(subs[i]), kind |-> "dir", ref |-> subs[i]]]
        link == IF fs.link.at = d
                THEN <<[name |-> "l",
                        kind |-> IF fs.link.to = 0 THEN "badlink" ELSE "dirlink",
                        ref |-> fs.link.to]>>
                ELSE <<>>
    IN  file \o dirs \o link

\* what the native calls on directory d do: "ok" or one of FailKinds
FailKind(d) == IF fs.fail.at = d THEN fs.fail.kind ELSE "ok"

\* the entry called name in directory d
EntryOf(d, name) ==
    LET es == Entries(d)
    IN  es[CHOOSE i \in 1..Len(es) : es[i].name = name]

\* win32: the dwFileAttributes FindFirstFile/FindNextFile report for an entry
WinAttributes(e) ==
    CASE e.kind = "file" -> 0
      [] e.kind = "dir" -> FILE_ATTRIBUTE_DIRECTORY
      [] e.kind = "dirlink" -> FILE_ATTRIBUTE_DIRECTORY + FILE_ATTRIBUTE_REPARSE_POINT
      [] e.kind = "badlink" -> FILE_ATTRIBUTE_REPARSE_POINT

\* win32: the WIN32_FIND_DATA sequence of a listing session: ".", "..", the entries
WinRaw(d) ==
    LET es == Entries(d)
    IN  <<[cFileName |-> ".", dwFileAttributes |-> FILE_ATTRIBUTE_DIRECTORY],
          [cFileName |-> "..", dwFileAttributes |-> FILE_ATTRIBUTE_DIRECTORY]>>
        \o [i \in 1..Len(es) |->
              [cFileName |-> es[i].name, dwFileAttributes |-> WinAttributes(es[i])]]

\* os.stat(path) of an entry: follows symbolic links; None stands for "raises OSError"
\* (0o644 = 420, 0o755 = 493)
OsStat(e) ==
    CASE e.kind = "file" -> [st_mode |-> BitOr(S_IFREG, 420)]
      [] e.kind \in {"dir", "dirlink"} -> [st_mode |-> BitOr(S_IFDIR, 493)]
      [] e.kind = "badlink" -> [st_mode |-> None]

\* the raw position at which an "advance" failure of the listing session strikes:
\* the advance after the first real entry, or the last advance of a shorter listing
AdvanceFailsAt(d, pos, len) ==
    FailKind(d) = "advance" /\ pos = Min(3, len)

(***************************************************************************)
(* iterdir_stat: the generator.  gen.st is "none" (no generator), "created"*)
(* (not started), "suspended" (at the yield) or "finished"; gen.pos is the *)
(* raw entry it is suspended at; gen.h the state of its native handle;     *)
(* gen.opens and gen.closes count its native open and close calls;         *)
(* gen.end says how it finished: "stop", "error" or "closed".              *)
(***************************************************************************)
NoGen == [node |-> 0, st |-> "none", pos |-> 0, h |-> "none",
          opens |-> 0, closes |-> 0, end |-> ""]

\* calling iterdir_stat(path): a generator object, none of the body has run
IterCreate(d) == [NoGen EXCEPT !.node = d, !.st = "created"]

\* the result of one resumption: the generator after it, what came out of it
\* ("yield", "stop", "OSError", "NameError") and the yielded (name, st)
Outcome(g, res, val) == [g |-> g, res |-> res, val |-> val]
NoVal == <<"", [st_mode |-> None]>>

Finish(g, how) == [g EXCEPT !.st = "finished", !.end = how]

(***************************************************************************)
(* win32 iterdir_stat (lines 113-147).                                     *)
(***************************************************************************)
\* a slip of lines 145-147: FindClose after the loop instead of in a finally block,
\* so only the normal end of the entries closes the handle
WinFinally_leaky(g, how) ==
    IF how = "stop"
    THEN Outcome(Finish([g EXCEPT !.h = "closed", !.closes = @ + 1], "stop"), "stop", NoVal)
    ELSE Outcome(Finish(g, IF how = "OSError" THEN "error" ELSE how), how, NoVal)

\* the finally block: FindClose(handle), which raises WinError when it fails;
\* how is what was leaving the try block ("stop", "OSError" or "closed")
WinFinally(g, how) ==
    LET g1 == [g EXCEPT !.h = "closed", !.closes = @ + 1]
    IN  IF FailKind(g.node) = "close"
        THEN Outcome(Finish(g1, "error"), "OSError", NoVal)
        ELSE Outcome(Finish(g1, IF how = "OSError" THEN "error" ELSE how), how, NoVal)

\* the while loop from its top, data being the raw entry g.pos: yield it unless it
\* is "." or "..", then FindNextFile: the next entry, ERROR_NO_MORE_FILES (break)
\* or another error (raise)
RECURSIVE WinLoop(_)
WinLoop(g) ==
    LET raw == WinRaw(g.node)
        data == raw[g.pos]
    IN  IF data.cFileName \notin {".", ".."}
        THEN Outcome([g EXCEPT !.st = "suspended"], "yield",
                     <<data.cFileName, find_data_to_stat(data)>>)
        ELSE IF AdvanceFailsAt(g.node, g.pos, Len(raw)) THEN WinFinally(g, "OSError")
        ELSE IF g.pos < Len(raw) THEN WinLoop([g EXCEPT !.pos = @ + 1])
        ELSE WinFinally(g, "stop")

\* resuming after the yield: FindNextFile, then the loop again
WinNext(g) ==
    LET raw == WinRaw(g.node)
    IN  IF AdvanceFailsAt(g.node, g.pos, Len(raw)) THEN WinFinally(g, "OSError")
        ELSE IF g.pos < Len(raw) THEN WinLoop([g EXCEPT !.pos = @ + 1])
        ELSE WinFinally(g, "stop")

\* a slip of lines 122-127: every INVALID_HANDLE_VALUE is taken for "no files"
WinFirst_swallow(g) ==
    IF FailKind(g.node) \in {"nofiles", "open"}
    THEN Outcome(Finish(g, "stop"), "stop", NoVal)
    ELSE WinLoop([g EXCEPT !.h = "open", !.opens = @ + 1, !.pos = 1])

\* the first pull: FindFirstFile; INVALID_HANDLE_VALUE with ERROR_FILE_NOT_FOUND is
\* "no files" (return), with any other error raise WinError; else the loop
WinFirst(g) ==
    CASE FailKind(g.node) = "nofiles" -> Outcome(Finish(g, "stop"), "stop", NoVal)
      [] FailKind(g.node) = "open" -> Outcome(Finish(g, "error"), "OSError", NoVal)
      [] OTHER -> WinLoop([g EXCEPT !.h = "open", !.opens = @ + 1, !.pos = 1])

(***************************************************************************)
(* posix iterdir_stat (lines 194-213).  opendir; then the loop calls       *)
(* readdir_r, a name the module never binds (line 175 binds readdir), so   *)
(* the first pass raises NameError inside the try; the finally block calls *)
(* closedir, whose own OSError replaces the NameError.                     *)
(***************************************************************************)
\* a slip of lines 211-213: no finally block, the exception leaves dir_p open
PosixFirst_noclose(g) ==
    IF FailKind(g.node) = "open"
    THEN Outcome(Finish(g, "error"), "OSError", NoVal)
    ELSE Outcome(Finish([g EXCEPT !.h = "open", !.opens = @ + 1], "error"),
                 "NameError", NoVal)

PosixFirst(g) ==
    IF FailKind(g.node) = "open"
    THEN Outcome(Finish(g, "error"), "OSError", NoVal)
    ELSE LET g1 == [g EXCEPT !.h = "closed", !.opens = @ + 1, !.closes = @ + 1]
         IN  IF FailKind(g.node) = "close"
             THEN Outcome(Finish(g1, "error"), "OSError", NoVal)
             ELSE Outcome(Finish(g1, "error"), "NameError", NoVal)

(***************************************************************************)
(* portable iterdir_stat (lines 218-221): os.listdir, then os.stat of each *)
(* name before it is yielded.  No native handle is held between pulls.     *)
(***************************************************************************)
\* the for loop at entry g.pos
OtherLoop(g) ==
    LET es == Entries(g.node)
    IN  IF g.pos > Len(es) THEN Outcome(Finish(g, "stop"), "stop", NoVal)
        ELSE IF OsStat(es[g.pos]).st_mode = None
        THEN Outcome(Finish(g, "error"), "OSError", NoVal)
        ELSE Outcome([g EXCEPT !.st = "suspended"], "yield",
                     <<es[g.pos].name, OsStat(es[g.pos])>>)

OtherFirst(g) ==
    IF FailKind(g.node) \in {"open", "advance"}
    THEN Outcome(Finish(g, "error"), "OSError", NoVal)
    ELSE OtherLoop([g EXCEPT !.pos = 1])

\* one pull (next()) of an iterdir_stat generator that is created or suspended
IterResume(g) ==
    CASE platform = "win32" -> IF g.st = "created" THEN WinFirst(g) ELSE WinNext(g)
      [] platform = "posix" -> PosixFirst(g)
      [] OTHER -> IF g.st = "created" THEN OtherFirst(g)
                  ELSE OtherLoop([g EXCEPT !.pos = @ + 1])

\* a slip of lines 130/145: no try/finally around the loop, close() runs nothing
IterCloseGen_nofinally(g) == Outcome(Finish(g, "closed"), "closed", NoVal)

\* close() of an iterdir_stat generator: GeneratorExit at its yield runs the
\* finally block (win32); a generator not yet started just ends
IterCloseGen(g) ==
    IF g.st = "suspended" /\ platform = "win32" THEN WinFinally(g, "closed")
    ELSE Outcome(Finish(g, "closed"), "closed", NoVal)

\* the handles open after a step that took the generator from g to g2
Handles(n, g, g2) == n + (g2.opens - g.opens) - (g2.closes - g.closes)

(***************************************************************************)
(* walk (lines 246-286).  A frame is one activation of walk(); f.pc is the *)
(* place it stands at: "start" (line 254, before iterdir_stat is called),  *)
(* "list" (inside list(...)), "split" (line 261), "pre" (line 275), "rec"  *)
(* (the loop of line 278, at index f.i), "ret" (after the yield of line    *)
(* 286).  Paths are the sequences of components os.path.join builds.       *)
(***************************************************************************)
NewFrame(path, d) ==
    [top |-> path, node |-> d, pc |-> "start", names_stats |-> <<>>,
     dirs |-> <<>>, dir_stats |-> <<>>, nondirs |-> <<>>, i |-> 1]

\* os.path.join(top, name)
join(path, name) == Append(path, name)

\* a slip of line 267: a symbolic link counts as a directory too
IsDirStat_orlink(st) == S_ISDIR(st.st_mode) \/ S_ISLNK(st.st_mode)

\* the test of line 267
IsDirStat(st) == S_ISDIR(st.st_mode)

\* the test of line 280
RecurseInto(follow, st) == follow \/ ~S_ISLNK(st.st_mode)

\* lines 261-271 from entry k on: acc holds dirs, dir_stats, nondirs, the paths
\* stat-ed by line 266, and whether that os.stat raised
RECURSIVE Split(_, _, _)
Split(f, k, acc) ==
    IF k > Len(f.names_stats) \/ acc.raised THEN acc
    ELSE LET name == f.names_stats[k][1]
             st0 == f.names_stats[k][2]
             query == st0.st_mode = None
             st == IF query THEN OsStat(EntryOf(f.node, name)) ELSE st0
             stats == IF query THEN Append(acc.stats, join(f.top, name)) ELSE acc.stats
         IN  IF query /\ st.st_mode = None
             THEN [acc EXCEPT !.stats = stats, !.raised = TRUE]
             ELSE IF IsDirStat(st)
             THEN Split(f, k + 1, [acc EXCEPT !.stats = stats,
                                              !.dirs = Append(@, name),
                                              !.dir_stats = Append(@, st)])
             ELSE Split(f, k + 1, [acc EXCEPT !.stats = stats,
                                              !.nondirs = Append(@, name)])

Record(f) == [path |-> f.top, dirs |-> f.dirs, nondirs |-> f.nondirs]

\* a slip of line 274: the record is yielded first whatever topdown says
YieldFirst_always(td) == TRUE

\* the test of line 274: the record is yielded before the recursion
YieldFirst(td) == td

\* the test of line 285: the record is yielded after the recursion
YieldLast(td) == ~td

Running == api = "walk" /\ ctl = "running" /\ stack # <<>>
Top == stack[Len(stack)]
SetTop(f) == [stack EXCEPT ![Len(stack)] = f]
Pop == SubSeq(stack, 1, Len(stack) - 1)

\* the innermost walk() returns: its caller goes on, or the walk is exhausted
Return ==
    /\ stack' = Pop
    /\ ctl' = IF Len(stack) = 1 THEN "exhausted" ELSE "running"

\* an exception leaves the innermost walk(): no frame catches it
Raise(e) ==
    /\ stack' = <<>>
    /\ ctl' = "raised"
    /\ exc' = e

\* the consumer calls walk(top): a generator, none of the body has run
WalkCall ==
    /\ api = "walk" /\ ctl = "init"
    /\ stack' = <<NewFrame(<<"top">>, top)>>
    /\ ctl' = "suspended"
    /\ UNCHANGED <<inputs, exc, gen, nopen, out, errors, statcalls>>

\* the consumer pulls the next record
WalkNext ==
    /\ api = "walk" /\ ctl = "suspended"
    /\ ctl' = "running"
    /\ UNCHANGED <<inputs, exc, stack, gen, nopen, out, errors, statcalls>>

\* the consumer abandons the walk: close() unwinds every frame from its yield;
\* walk() has no finally block
WalkClose ==
    /\ api = "walk" /\ ctl = "suspended"
    /\ ctl' = "closed"
    /\ stack' = <<>>
    /\ UNCHANGED <<inputs, exc, gen, nopen, out, errors, statcalls>>

\* lines 254-258: iterdir_stat(top) is called (when this walk() starts) and
\* list() pulls one more entry; an OSError goes to onerror and ends this walk();
\* any other exception leaves the walk
WalkList ==
    /\ Running /\ Top.pc \in {"start", "list"}
    /\ LET g == IF Top.pc = "start" THEN IterCreate(Top.node) ELSE gen
           o == IterResume(g)
       IN  /\ gen' = o.g
           /\ nopen' = Handles(nopen, g, o.g)
           /\ CASE o.res = "yield" ->
                     /\ stack' = SetTop([Top EXCEPT !.pc = "list",
                                                         !.names_stats = Append(@, o.val)])
                     /\ UNCHANGED <<ctl, exc, errors>>
                [] o.res = "stop" ->
                     /\ stack' = SetTop([Top EXCEPT !.pc = "split"])
                     /\ UNCHANGED <<ctl, exc, errors>>
                [] o.res = "OSError" /\ onerror = "none" ->
                     /\ Return
                     /\ UNCHANGED <<exc, errors>>
                [] o.res = "OSError" /\ onerror = "given" ->
                     /\ errors' = Append(errors, Top.top)
                     /\ Return
                     /\ UNCHANGED exc
                [] o.res = "OSError" /\ onerror = "raises" ->
                     /\ errors' = Append(errors, Top.top)
                     /\ Raise("CallbackError")
                [] OTHER ->
                     /\ Raise(o.res)
                     /\ UNCHANGED errors
    /\ UNCHANGED <<inputs, out, statcalls>>

\* lines 261-271: the entries are split into dirs and nondirs
WalkSplit ==
    /\ Running /\ Top.pc = "split"
    /\ LET r == Split(Top, 1, [dirs |-> <<>>, dir_stats |-> <<>>, nondirs |-> <<>>,
                               stats |-> <<>>, raised |-> FALSE])
       IN  /\ statcalls' = statcalls \o r.stats
           /\ IF r.raised
              THEN Raise("OSError")
              ELSE /\ stack' = SetTop([Top EXCEPT !.dirs = r.dirs,
                                                  !.dir_stats = r.dir_stats,
                                                  !.nondirs = r.nondirs,
                                                  !.pc = IF YieldFirst(topdown) THEN "pre" ELSE "rec"])
                   /\ UNCHANGED <<ctl, exc>>
    /\ UNCHANGED <<inputs, gen, nopen, out, errors>>

\* line 275: yield top, dirs, nondirs
WalkYieldTop ==
    /\ Running /\ Top.pc = "pre"
    /\ out' = Append(out, Record(Top))
    /\ stack' = SetTop([Top EXCEPT !.pc = "rec"])
    /\ ctl' = "suspended"
    /\ UNCHANGED <<inputs, exc, gen, nopen, errors, statcalls>>

\* lines 278-282: the next subdirectory; walk(new_path, ...) is called and pulled
\* unless it is a symbolic link that is not followed
WalkRecurse ==
    /\ Running /\ Top.pc = "rec" /\ Top.i <= Len(Top.dirs)
    /\ LET name == Top.dirs[Top.i]
           st == Top.dir_stats[Top.i]
           new_path == join(Top.top, name)
           me == [Top EXCEPT !.i = @ + 1]
       IN  stack' = IF RecurseInto(followlinks, st)
                    THEN Append(SetTop(me), NewFrame(new_path, EntryOf(Top.node, name).ref))
                    ELSE SetTop(me)
    /\ UNCHANGED <<inputs, ctl, exc, gen, nopen, out, errors, statcalls>>

\* line 286: yield top, dirs, nondirs
WalkYieldBottom ==
    /\ Running /\ Top.pc = "rec" /\ Top.i > Len(Top.dirs) /\ YieldLast(topdown)
    /\ out' = Append(out, Record(Top))
    /\ stack' = SetTop([Top EXCEPT !.pc = "ret"])
    /\ ctl' = "suspended"
    /\ UNCHANGED <<inputs, exc, gen, nopen, errors, statcalls>>

\* the end of walk()'s body
WalkReturn ==
    /\ Running
    /\ \/ Top.pc = "rec" /\ Top.i > Len(Top.dirs) /\ ~YieldLast(topdown)
       \/ Top.pc = "ret"
    /\ Return
    /\ UNCHANGED <<inputs, exc, gen, nopen, out, errors, statcalls>>

(***************************************************************************)
(* walk as a function of its arguments: the records a consumer that never  *)
(* closes the generator receives, and whether an exception ended the walk. *)
(* follow is the followlinks argument; the other arguments are those of    *)
(* the walk.                                                               *)
(***************************************************************************)
\* list(iterdir_stat(top)): every entry, or the exception
RECURSIVE Drain(_, _)
Drain(g, acc) ==
    LET o == IterResume(g)
    IN  CASE o.res = "yield" -> Drain(o.g, Append(acc, o.val))
          [] o.res = "stop" -> [res |-> "ok", names_stats |-> acc]
          [] OTHER -> [res |-> o.res, names_stats |-> <<>>]

RECURSIVE walk_records(_, _, _)
RECURSIVE walk_subdirs(_, _, _, _)
\* lines 278-282 from index k on, for the frame f after the split
walk_subdirs(f, k, follow, acc) ==
    IF k > Len(f.dirs) THEN [recs |-> acc, raised |-> FALSE]
    ELSE IF ~RecurseInto(follow, f.dir_stats[k]) THEN walk_subdirs(f, k + 1, follow, acc)
    ELSE LET sub == walk_records(join(f.top, f.dirs[k]),
                                 EntryOf(f.node, f.dirs[k]).ref, follow)
         IN  IF sub.raised THEN [recs |-> acc \o sub.recs, raised |-> TRUE]
             ELSE walk_subdirs(f, k + 1, follow, acc \o sub.recs)

walk_records(path, d, follow) ==
    LET l == Drain(IterCreate(d), <<>>)
        r == Split([NewFrame(path, d) EXCEPT !.names_stats = l.names_stats], 1,
                   [dirs |-> <<>>, dir_stats |-> <<>>, nondirs |-> <<>>,
                    stats |-> <<>>, raised |-> FALSE])
        f == [NewFrame(path, d) EXCEPT !.dirs = r.dirs, !.dir_stats = r.dir_stats,
                                      !.nondirs = r.nondirs]
        before == IF YieldFirst(topdown) THEN <<Record(f)>> ELSE <<>>
        subs == walk_subdirs(f, 1, follow, before)
    IN  IF l.res = "OSError" THEN [recs |-> <<>>, raised |-> onerror = "raises"]
        ELSE IF l.res # "ok" \/ r.raised THEN [recs |-> <<>>, raised |-> TRUE]
        ELSE IF subs.raised THEN subs
        ELSE [recs |-> subs.recs \o (IF YieldLast(topdown) THEN <<Record(f)>> ELSE <<>>),
              raised |-> FALSE]

(***************************************************************************)
(* A consumer that uses iterdir_stat directly.                             *)
(***************************************************************************)
\* the consumer calls iterdir_stat(path)
IterCall ==
    /\ api = "iterdir_stat" /\ ctl = "init"
    /\ gen' = IterCreate(top)
    /\ ctl' = "suspended"
    /\ UNCHANGED <<inputs, exc, stack, nopen, out, errors, statcalls>>

\* the consumer pulls the next entry
IterNext ==
    /\ api = "iterdir_stat" /\ ctl = "suspended"
    /\ LET o == IterResume(gen)
       IN  /\ gen' = o.g
           /\ nopen' = Handles(nopen, gen, o.g)
           /\ out' = IF o.res = "yield" THEN Append(out, o.val) ELSE out
           /\ ctl' = CASE o.res = "yield" -> "suspended"
                       [] o.res = "stop" -> "exhausted"
                       [] OTHER -> "raised"
           /\ exc' = IF o.res \in {"yield", "stop"} THEN exc ELSE o.res
    /\ UNCHANGED <<inputs, stack, errors, statcalls>>

\* the consumer closes the generator instead of pulling
IterClose ==
    /\ api = "iterdir_stat" /\ ctl = "suspended"
    /\ LET o == IterCloseGen(gen)
       IN  /\ gen' = o.g
           /\ nopen' = Handles(nopen, gen, o.g)
           /\ ctl' = IF o.res = "closed" THEN "closed" ELSE "raised"
           /\ exc' = IF o.res = "closed" THEN exc ELSE o.res
    /\ UNCHANGED <<inputs, stack, out, errors, statcalls>>

(***************************************************************************)
(* iterdir (lines 238-243): a generator that loops over iterdir_stat(path) *)
(* and yields the names.  The inner generator is created by the first      *)
(* pull.  close() raises GeneratorExit at iterdir's yield; iterdir has no  *)
(* finally block and does not close the inner generator itself: the inner  *)
(* generator is finalised when iterdir's frame lets go of it, which runs   *)
(* its finally block, and an exception raised there is not propagated.     *)
(***************************************************************************)
\* the consumer calls iterdir(path)
IterdirCall ==
    /\ api = "iterdir" /\ ctl = "init"
    /\ ctl' = "suspended"
    /\ UNCHANGED <<inputs, exc, stack, gen, nopen, out, errors, statcalls>>

\* the consumer pulls the next name
IterdirNext ==
    /\ api = "iterdir" /\ ctl = "suspended"
    /\ LET g == IF gen.st = "none" THEN IterCreate(top) ELSE gen
           o == IterResume(g)
       IN  /\ gen' = o.g
           /\ nopen' = Handles(nopen, g, o.g)
           /\ out' = IF o.res = "yield" THEN Append(out, o.val[1]) ELSE out
           /\ ctl' = CASE o.res = "yield" -> "suspended"
                       [] o.res = "stop" -> "exhausted"
                       [] OTHER -> "raised"
           /\ exc' = IF o.res \in {"yield", "stop"} THEN exc ELSE o.res
    /\ UNCHANGED <<inputs, stack, errors, statcalls>>

\* the consumer closes iterdir's generator: the inner generator, if one is
\* suspended, is finalised and what its finally block raises is dropped
IterdirClose ==
    /\ api = "iterdir" /\ ctl = "suspended"
    /\ LET o == IF gen.st = "none" THEN Outcome(gen, "closed", NoVal) ELSE IterCloseGen(gen)
       IN  /\ gen' = o.g
           /\ nopen' = Handles(nopen, gen, o.g)
    /\ ctl' = "closed"
    /\ UNCHANGED <<inputs, exc, stack, out, errors, statcalls>>

(***************************************************************************)
(* type_to_stat (lines 185-192), a function of the module on posix, called *)
(* with a d_type: it returns at once with the stat_result it builds.       *)
(***************************************************************************)
TypeToStatCall ==
    /\ api = "type_to_stat" /\ ctl = "init"
    /\ out' = <<type_to_stat(arg)>>
    /\ ctl' = "returned"
    /\ UNCHANGED <<inputs, exc, stack, gen, nopen, errors, statcalls>>

(***************************************************************************)
(* The inputs and the specification.                                       *)
(***************************************************************************)
Platforms == {"win32", "posix", "other"}

Shapes == {p \in [2..MaxDirs -> Dirs] : \A d \in 2..MaxDirs : p[d] < d}
Links == {[at |-> 0, to |-> 0]}
         \cup {[at |-> a, to |-> t] : a \in Dirs, t \in 0..MaxDirs}
Fails == {[at |-> 0, kind |-> "ok"]}
         \cup {[at |-> a, kind |-> k] : a \in Dirs, k \in FailKinds}

\* the trees of the model: a link points past its own directory or dangles; the
\* "no files" answer comes only from a directory that holds nothing
WellFormed(t) ==
    /\ t.link.at # 0 /\ t.link.to # 0 => t.link.to > t.link.at
    /\ t.fail.kind = "nofiles" =>
          /\ ~t.files
          /\ t.link.at # t.fail.at
          /\ \A d \in 2..MaxDirs : t.parent[d] # t.fail.at

Trees ==
    {t \in [parent : Shapes, files : BOOLEAN, link : Links, fail : Fails] : WellFormed(t)}

\* the tree of a call that reads no directory: every directory empty, under the root
BareTree ==
    [parent |-> [d \in 2..MaxDirs |-> 1], files |-> FALSE,
     link |-> [at |-> 0, to |-> 0], fail |-> [at |-> 0, kind |-> "ok"]]

\* the values of dirent.d_type type_to_stat is called with
DTypes == {DT_UNKNOWN, DT_DIR, DT_REG, DT_LNK}

Idle ==
    /\ ctl = "init" /\ exc = "none" /\ stack = <<>> /\ gen = NoGen
    /\ nopen = 0 /\ out = <<>> /\ errors = <<>> /\ statcalls = <<>>

Init ==
    /\ platform \in Platforms
    /\ api \in {"walk", "iterdir_stat", "iterdir"}
               \cup (IF platform = "posix" THEN {"type_to_stat"} ELSE {})
    /\ fs \in IF api = "type_to_stat" THEN {BareTree} ELSE Trees
    /\ top \in IF api \in {"walk", "type_to_stat"} THEN {1} ELSE Dirs
    /\ arg \in IF api = "type_to_stat" THEN DTypes ELSE {None}
    /\ topdown \in IF api = "walk" THEN BOOLEAN ELSE {TRUE}
    /\ followlinks \in IF api = "walk" THEN BOOLEAN ELSE {FALSE}
    /\ onerror \in IF api = "walk" THEN {"none", "given", "raises"} ELSE {"none"}
    /\ Idle

Next ==
    \/ WalkCall \/ WalkNext \/ WalkClose
    \/ WalkList \/ WalkSplit \/ WalkYieldTop
    \/ WalkRecurse \/ WalkYieldBottom \/ WalkReturn
    \/ IterCall \/ IterNext \/ IterClose
    \/ IterdirCall \/ IterdirNext \/ IterdirClose
    \/ TypeToStatCall

Spec == Init /\ [][Next]_vars

(***************************************************************************)
(* Helpers of the properties.                                              *)
(***************************************************************************)
IsProperPrefix(p, q) == Len(p) < Len(q) /\ SubSeq(q, 1, Len(p)) = p
IsPrefix(p, q) == Len(p) <= Len(q) /\ SubSeq(q, 1, Len(p)) = p
Range(seq) == {seq[i] : i \in 1..Len(seq)}
OutPaths == {out[i].path : i \in 1..Len(out)}
Count(seq, x) == Cardinality({i \in 1..Len(seq) : seq[i] = x})

\* the directory a path of the tree leads to
RECURSIVE NodeAt(_)
NodeAt(path) ==
    IF Len(path) = 1 THEN top
    ELSE EntryOf(NodeAt(SubSeq(path, 1, Len(path) - 1)), path[Len(path)]).ref

(***************************************************************************)
(* C1: with topdown a directory's record comes strictly before the record  *)
(* of every directory below it, without topdown strictly after; no         *)
(* directory gets two records, and when the walk is exhausted every        *)
(* subdirectory named in a record has a record of its own unless its       *)
(* listing failed (and was reported to onerror).                           *)
(***************************************************************************)
C1_Order ==
    api = "walk" =>
      /\ \A i, j \in 1..Len(out) :
            /\ IsProperPrefix(out[i].path, out[j].path) =>
                  IF topdown THEN i < j ELSE j < i
            /\ i # j => out[i].path # out[j].path
      /\ ctl = "exhausted" /\ onerror = "given" =>
            /\ <<"top">> \in OutPaths \cup Range(errors)
            /\ \A i \in 1..Len(out) : \A n \in Range(out[i].dirs) :
                  join(out[i].path, n) \in OutPaths \cup Range(errors)

\* a bottom-up walk of a chain of three directories is exhausted: the innermost
\* record came first, the outermost last
C1_Witness ==
    /\ api = "walk" /\ ~topdown /\ ctl = "exhausted"
    /\ \E i, j \in 1..Len(out) :
          /\ i < j
          /\ IsProperPrefix(out[j].path, out[i].path)
          /\ Len(out[i].path) = Len(out[j].path) + 2

(***************************************************************************)
(* C3: once a walk is exhausted or closed by its consumer, no native       *)
(* listing handle is left open.                                            *)
(***************************************************************************)
C3_NoHandleLeft ==
    api = "walk" /\ ctl \in {"exhausted", "closed"} => nopen = 0

\* the consumer closed a walk two levels down whose last listing had opened and
\* closed a native handle
C3_Witness ==
    /\ api = "walk" /\ ctl = "closed" /\ Len(out) >= 2
    /\ Len(out[Len(out)].path) >= 2
    /\ gen.opens = 1 /\ gen.closes = 1 /\ nopen = 0

(***************************************************************************)
(* C9: at most one native handle is open at any time; a handle is open     *)
(* only while the innermost walk() is inside list(iterdir_stat(top)) for   *)
(* its own directory, so none is open when a record is handed out or a     *)
(* subdirectory is entered.                                                *)
(***************************************************************************)
C9_OneHandle ==
    api = "walk" =>
      /\ nopen \in {0, 1}
      /\ ctl = "suspended" => nopen = 0
      /\ nopen = 1 =>
            /\ ctl = "running" /\ stack # <<>>
            /\ Top.pc = "list" /\ gen.node = Top.node /\ gen.h = "open"

\* a walk three levels deep holds the one open handle, of the innermost directory
C9_Witness ==
    /\ api = "walk" /\ nopen = 1 /\ Len(stack) = 3
    /\ Top.pc = "list" /\ Len(out) >= 2

(***************************************************************************)
(* C6: an iterdir_stat enumeration opens at most one native handle and     *)
(* closes it exactly once however it ends (end of entries, close() by the  *)
(* consumer, a native error); a closed handle belongs to a finished        *)
(* generator, which reads nothing more.                                    *)
(***************************************************************************)
C6_HandleClosedOnce ==
    /\ gen.opens \in {0, 1}
    /\ gen.closes <= gen.opens
    /\ gen.h = "open" <=> (gen.opens = 1 /\ gen.closes = 0)
    /\ gen.st = "finished" => gen.closes = gen.opens
    /\ gen.h = "closed" => gen.st = "finished"

\* the consumer closed an enumeration suspended at a yielded entry: its handle
\* was closed once
C6_Witness ==
    /\ api = "iterdir_stat" /\ ctl = "closed" /\ Len(out) >= 1
    /\ gen.end = "closed" /\ gen.opens = 1 /\ gen.closes = 1

(***************************************************************************)
(* The reference traversal: os.walk of Python 2.7, which lists the names   *)
(* with os.listdir and asks os.path.isdir (a stat that follows links) and  *)
(* os.path.islink (an lstat) about each.                                   *)
(***************************************************************************)
isdir(e) == e.kind \in {"dir", "dirlink"}
islink(e) == e.kind \in {"dirlink", "badlink"}

RECURSIVE OsWalk(_, _)
RECURSIVE OsWalkSubs(_, _, _)
OsWalkSubs(path, subs, k) ==
    IF k > Len(subs) THEN <<>>
    ELSE (IF followlinks \/ ~islink(subs[k])
          THEN OsWalk(join(path, subs[k].name), subs[k].ref)
          ELSE <<>>)
         \o OsWalkSubs(path, subs, k + 1)

OsWalk(path, d) ==
    IF FailKind(d) = "open" THEN <<>>
    ELSE LET es == Entries(d)
             subs == SelectSeq(es, isdir)
             files == SelectSeq(es, LAMBDA e : ~isdir(e))
             rec == [path |-> path,
                     dirs |-> [i \in 1..Len(subs) |-> subs[i].name],
                     nondirs |-> [i \in 1..Len(files) |-> files[i].name]]
         IN  IF topdown THEN <<rec>> \o OsWalkSubs(path, subs, 1)
             ELSE OsWalkSubs(path, subs, 1) \o <<rec>>

FileNames(recs) == UNION {Range(recs[i].nondirs) : i \in 1..Len(recs)}
DirNames(recs) == UNION {Range(recs[i].dirs) : i \in 1..Len(recs)}
Paths(recs) == {recs[i].path : i \in 1..Len(recs)}

(***************************************************************************)
(* C2: a directory whose listing fails gets no record, nor does anything   *)
(* below it; onerror is called exactly once for it; every other directory  *)
(* named in a record gets its record; and nothing is raised out of the     *)
(* walk unless onerror itself raises.                                      *)
(***************************************************************************)
C2_ErrorIsolation ==
    api = "walk" =>
      /\ ctl = "raised" => exc = "CallbackError"
      /\ \A e \in Range(errors) :
            /\ Count(errors, e) = 1
            /\ \A i \in 1..Len(out) : ~IsPrefix(e, out[i].path)
      /\ ctl = "exhausted" /\ onerror = "given" =>
            \A i \in 1..Len(out) : \A n \in Range(out[i].dirs) :
               join(out[i].path, n) \in OutPaths \cup Range(errors)

(***************************************************************************)
(* C4: where a directory P holds a symbolic link l to another directory,   *)
(* P's record names l among its subdirectories, and a record for P/l is    *)
(* produced exactly when followlinks is true.                              *)
(***************************************************************************)
C4_Symlink ==
    api = "walk" /\ ctl = "exhausted" /\ fs.fail.at = 0
                 /\ fs.link.at # 0 /\ fs.link.to # 0 =>
      \A i \in 1..Len(out) :
         NodeAt(out[i].path) = fs.link.at =>
            /\ "l" \in Range(out[i].dirs)
            /\ join(out[i].path, "l") \in OutPaths <=> followlinks

(***************************************************************************)
(* C5: on a tree whose listings do not fail, walk reports the same file    *)
(* names, the same subdirectory names and the same directory paths as the  *)
(* reference traversal os.walk.                                            *)
(***************************************************************************)
C5_SameAsOsWalk ==
    api = "walk" /\ ctl \in {"exhausted", "raised"} /\ fs.fail.at = 0 =>
      LET ref == OsWalk(<<"top">>, top)
      IN  /\ FileNames(out) = FileNames(ref)
          /\ DirNames(out) = DirNames(ref)
          /\ Paths(out) = Paths(ref)

(***************************************************************************)
(* C7 as claimed: a failure to open the directory is reported by the call  *)
(* of iterdir_stat itself, so once the call is made the failure has been   *)
(* raised.                                                                 *)
(***************************************************************************)
C7_Eager ==
    api = "iterdir_stat" /\ FailKind(top) = "open" /\ ctl # "init" => ctl = "raised"

(***************************************************************************)
(* C7 as amended: the call of iterdir_stat runs nothing; a failure to open *)
(* the directory is raised as OSError by the first pull, before any entry  *)
(* is delivered and without a handle having been opened, and is never      *)
(* turned into an empty sequence.  (FindFirstFile's ERROR_FILE_NOT_FOUND,  *)
(* a listing that matches no entry, is no failure: it is an empty          *)
(* sequence and raises nothing.)                                           *)
(***************************************************************************)
C7_AtFirstPull ==
    /\ api = "iterdir_stat" /\ FailKind(top) = "open" =>
          /\ out = <<>> /\ gen.opens = 0
          /\ ctl # "exhausted"
          /\ ctl = "suspended" => gen.st = "created"
          /\ ctl = "raised" => exc = "OSError" /\ gen.end = "error"
          /\ ctl = "closed" => gen.end = "closed"
    /\ api = "iterdir_stat" /\ FailKind(top) = "nofiles" /\ platform = "win32" =>
          out = <<>> /\ gen.opens = 0 /\ ctl # "raised"

\* the first pull of an enumeration of a directory that cannot be opened raised
C7_Witness ==
    /\ api = "iterdir_stat" /\ FailKind(top) = "open"
    /\ ctl = "raised" /\ exc = "OSError" /\ gen.st = "finished"

(***************************************************************************)
(* C8: an entry whose type the native listing did not resolve triggers     *)
(* exactly one fallback stat query by walk, a resolved one none.  walk     *)
(* makes the query exactly for a pair whose st_mode is None (line 265), so *)
(* this is: when walk has split the entries of a directory it has made one *)
(* os.stat call for every pair it held with st_mode None and none for any  *)
(* other pair; and the conversion of an unresolved d_type (DT_UNKNOWN)     *)
(* hands walk a stat_result whose st_mode is None.                         *)
(***************************************************************************)
Unresolved(t) == t = DT_UNKNOWN

C8_FallbackStat ==
    /\ api = "walk" /\ stack # <<>> /\ Top.pc \in {"pre", "rec"} =>
          \A i \in 1..Len(Top.names_stats) :
             Count(statcalls, join(Top.top, Top.names_stats[i][1]))
                = IF Top.names_stats[i][2].st_mode = None THEN 1 ELSE 0
    /\ api = "type_to_stat" /\ ctl = "returned" /\ Unresolved(arg) =>
          out[1].st_mode = None

(***************************************************************************)
(* C10: every name walk holds as a subdirectory has a mode for which       *)
(* S_ISDIR holds, and for it the test of line 280 gives the same answer    *)
(* with followlinks true and false; and the records of a finished walk are *)
(* the sequence walk produces with the other value of followlinks, which   *)
(* ends by an exception exactly when this walk did.                        *)
(***************************************************************************)
C10_FollowlinksIrrelevant ==
    api = "walk" =>
      /\ \A k \in 1..Len(stack) : \A n \in 1..Len(stack[k].dir_stats) :
            /\ S_ISDIR(stack[k].dir_stats[n].st_mode)
            /\ RecurseInto(TRUE, stack[k].dir_stats[n])
                  = RecurseInto(FALSE, stack[k].dir_stats[n])
      /\ ctl \in {"exhausted", "raised"} =>
            /\ out = walk_records(<<"top">>, top, followlinks).recs
            /\ out = walk_records(<<"top">>, top, ~followlinks).recs
            /\ (ctl = "raised") = walk_records(<<"top">>, top, ~followlinks).raised

\* a walk with followlinks false has produced a record rooted at a symbolic link
C10_Witness ==
    /\ api = "walk" /\ ~followlinks /\ ctl = "exhausted"
    /\ fs.link.at # 0 /\ fs.link.to # 0
    /\ \E i \in 1..Len(out) : out[i].path[Len(out[i].path)] = "l"

====
